---------------------------- MODULE Spec2Model ----------------------------
(***************************************************************************)
(* Model of the Bakeru puzzle solver (src-tauri/src/solver.rs) and of the  *)
(* two Tauri commands that drive it (src-tauri/src/lib.rs).                *)
(*                                                                         *)
(* Vectors are functions over 0..n-1, so every index of the model is the   *)
(* index the Rust code uses.  An Option is a set with at most one element. *)
(***************************************************************************)
EXTENDS Integers, Sequences, FiniteSets, TLC

VARIABLES
    input,          \* per solve request: the SolverInput handed to solve_puzzle
    pc,             \* per solve request: where the request stands
    exitAt,         \* per solve request: the return statement it left through
    response,       \* per solve request: the value solve_puzzle returned
    max_token,      \* Solver.max_token
    mat,            \* Solver.mat
    shapes,         \* Solver.shapes
    i,              \* cursor of Solver::solve
    budget_stack,   \* budget_stack of Solver::solve (the frames the search can touch)
    iter_count,     \* iter_count of Solver::solve
    backtracks,     \* number of backtrack steps the search has taken
    CANCEL_FLAG,    \* the process-wide AtomicBool
    overflow_checks,\* the build: TRUE when integer overflow panics (debug profile)
    aimed,          \* solves at which a cancel_solve call was aimed while in flight
    extra           \* per solve: loop iterations run since a cancel was aimed at it

vars == <<input, pc, exitAt, response, max_token, mat, shapes, i, budget_stack,
          iter_count, backtracks, CANCEL_FLAG, overflow_checks, aimed, extra>>

progVars == <<input, pc, exitAt, response, max_token, mat, shapes, i,
              budget_stack, iter_count, backtracks, overflow_checks>>

-----------------------------------------------------------------------------
(* Bounds of the model                                                     *)

MaxSize == 6        \* largest request drawn: cells + shapes + points
MaxRaw == 1         \* largest raw grid value drawn
SmallSize == 4      \* largest request drawn with unvalidated shapes
OutOfRange == 2     \* how far past the grid a drawn point index may lie

(* Program constants                                                       *)

PollInterval == 1024
StackCap == 256

Solves == {1, 2}

-----------------------------------------------------------------------------
(* Vectors                                                                 *)

VLen(v) == Cardinality(DOMAIN v)
EmptyVec == [k \in {} |-> 0]

(* `as i8`: the low eight bits, read as a signed value *)
ToI8(n) == ((n + 128) % 256) - 128

(* Rust's `/` on i32 truncates toward zero *)
TruncDiv(a, b) ==
    IF a >= 0 THEN a \div b ELSE -((-a) \div b)


SetMax(S) == CHOOSE m \in S : \A n \in S : n <= m

(* TLC builds [k \in S |-> e] lazily; a comparison makes it a table, so a  *)
(* vector built from a vector does not keep the whole chain behind it      *)
Forced(v) == IF v = v THEN v ELSE v

Push(v, e) == Forced([k \in 0..VLen(v) |-> IF k = VLen(v) THEN e ELSE v[k]])

(* the sum of v[lo..hi-1], the range split in two to keep the evaluation   *)
(* shallow                                                                 *)
RECURSIVE SumRange(_, _, _)
SumRange(v, lo, hi) ==
    IF hi <= lo THEN 0
    ELSE IF hi = lo + 1 THEN v[lo]
    ELSE LET mid == (lo + hi) \div 2
         IN  SumRange(v, lo, mid) + SumRange(v, mid, hi)

SumVec(v, n) == SumRange(v, 0, n)

-----------------------------------------------------------------------------
(* Solver::new: normalisation                                              *)

Lt(grid) == IF VLen(grid) = 0 THEN 0 ELSE SetMax({grid[c] : c \in DOMAIN grid})

NewOrder(mt, goal) ==
    [k \in 0..(mt - 1) |-> IF k <= goal THEN goal - k ELSE goal + mt - k]

Normalize(grid, goal) ==
    LET mt == Lt(grid) + 1
        new_order == NewOrder(mt, goal)
    IN  [c \in DOMAIN grid |-> ToI8(new_order[grid[c]])]

-----------------------------------------------------------------------------
(* Solver::new: search order                                               *)

(* lines 71-74: the scan of j..last that starts from `best`; a scan of     *)
(* more than one index is the scan of its first half, then of its second   *)
RECURSIVE BestScan(_, _, _, _)
BestScan(work, last, j, best) ==
    IF j > last THEN best
    ELSE IF j = last
         THEN IF VLen(work[j].points) > VLen(work[best].points) THEN j ELSE best
         ELSE LET mid == (j + last) \div 2
                  first == BestScan(work, mid, j, best)
              IN  IF first \in 0..mid THEN BestScan(work, last, mid + 1, first)
                  ELSE first

SwapRemove(work, best) ==
    LET n == VLen(work)
    IN  Forced([k \in 0..(n - 2) |-> IF k = best THEN work[n - 1] ELSE work[k]])

(* one pass of lines 70-75: the shape taken from `work` goes to the end of *)
(* the order                                                               *)
SelectPass(st) ==
    LET best == BestScan(st.work, VLen(st.work) - 1, 0, 0)
    IN  [work |-> SwapRemove(st.work, best), order |-> Push(st.order, st.work[best])]

(* n passes, split in two to keep the evaluation shallow *)
RECURSIVE SelectPasses(_, _)
SelectPasses(st, n) ==
    IF n = 0 THEN st
    ELSE IF n = 1 THEN SelectPass(st)
    ELSE LET half == SelectPasses(st, n \div 2)
         IN  IF VLen(half.order) >= 0 THEN SelectPasses(half, n - (n \div 2))
             ELSE half

SearchOrder(work) ==
    SelectPasses([work |-> work, order |-> EmptyVec], VLen(work)).order

-----------------------------------------------------------------------------
(* Solver::new: one shape                                                  *)

RECURSIVE SortPts(_)
SortPts(pts) ==
    IF VLen(pts) = 0 THEN EmptyVec
    ELSE LET n == VLen(pts)
             m == SetMax({pts[k] : k \in DOMAIN pts})
             at == CHOOSE k \in DOMAIN pts : pts[k] = m
             rest == [k \in 0..(n - 2) |-> IF k < at THEN pts[k] ELSE pts[k + 1]]
         IN  Push(SortPts(rest), m)

MaxX(pts, x) == SetMax({0} \cup {pts[k] % x : k \in DOMAIN pts})
MaxY(pts, x) == SetMax({0} \cup {pts[k] \div x : k \in DOMAIN pts})

PlacementCache(pts, x, ax, tot) ==
    LET npts == VLen(pts)
    IN  [c \in 0..(tot * npts - 1) |->
            LET k == c \div npts
                pt == pts[c % npts]
                dx == k % ax
                dy == k \div ax
            IN  ((pt \div x) + dy) * x + ((pt % x) + dx)]

Prefix(cache, n) == [k \in 0..(n - 1) |-> cache[k]]

(* the comparison of line 99; the slices panic when a cache is shorter than npts *)
SameShape(prev, npts, tot, cache) ==
    /\ prev.npts = npts
    /\ prev.tot = tot
    /\ Prefix(prev.cache, prev.npts) = Prefix(cache, prev.npts)

SlicePanics(prev, npts, tot, cache) ==
    /\ prev.npts = npts
    /\ prev.tot = tot
    /\ prev.npts > VLen(prev.cache)

RECURSIVE EquivalentTo(_, _, _, _, _)
EquivalentTo(done, idx, npts, tot, cache) ==
    IF idx >= VLen(done) THEN {}
    ELSE IF SameShape(done[idx], npts, tot, cache) THEN {idx}
    ELSE EquivalentTo(done, idx + 1, npts, tot, cache)

(* one pass of the loop of lines 70-112, for the shape taken from `work` *)
MakeShape(w, x, y, done) ==
    LET pts == SortPts(w.points)
        ax == x - MaxX(pts, x)
        ay == y - MaxY(pts, x)
        tot == ax * ay
        cache == PlacementCache(pts, x, ax, tot)
    IN  [original_id |-> w.id, npts |-> VLen(pts), ax |-> ax, tot |-> tot,
         cache |-> cache, seq |-> 0, incs |-> 0,
         equivalent_to |-> EquivalentTo(done, 0, VLen(pts), tot, cache)]

(* `y - max_y` underflows usize, or a slice of line 99 is out of range *)
ShapePanics(w, x, y, done) ==
    LET pts == SortPts(w.points)
    IN  \/ y < MaxY(pts, x)
        \/ LET ax == x - MaxX(pts, x)
               tot == ax * (y - MaxY(pts, x))
               cache == PlacementCache(pts, x, ax, tot)
           IN  \E idx \in DOMAIN done : SlicePanics(done[idx], VLen(pts), tot, cache)

(* lines 76-111 for the shape order[k]; nothing runs after a panic *)
BuildPass(order, k, x, y, acc) ==
    IF acc.panic THEN acc
    ELSE IF ShapePanics(order[k], x, y, acc.shapes)
         THEN [panic |-> TRUE, shapes |-> acc.shapes]
         ELSE [panic |-> FALSE,
               shapes |-> Push(acc.shapes, MakeShape(order[k], x, y, acc.shapes))]

(* the passes for order[lo..hi-1], split in two to keep the evaluation     *)
(* shallow                                                                 *)
RECURSIVE BuildRange(_, _, _, _, _, _)
BuildRange(order, lo, hi, x, y, acc) ==
    IF hi <= lo THEN acc
    ELSE IF hi = lo + 1 THEN BuildPass(order, lo, x, y, acc)
    ELSE LET mid == (lo + hi) \div 2
             first == BuildRange(order, lo, mid, x, y, acc)
         IN  IF first.panic THEN first
             ELSE BuildRange(order, mid, hi, x, y, first)

BuildShapes(order, k, x, y, done) ==
    BuildRange(order, k, VLen(order), x, y, [panic |-> FALSE, shapes |-> done])

Togs(inp) == SumVec([k \in DOMAIN inp.shapes |-> VLen(inp.shapes[k].points)],
                    VLen(inp.shapes))

GridSum(m) == SumVec(m, VLen(m))

(* the budget without the division by the cycle length *)
InitialBudgetUndivided(togs, grid_sum, mt) == togs - grid_sum

(* line 115 *)
InitialBudget(togs, grid_sum, mt) == TruncDiv(togs - grid_sum, mt)

(* lines 66-117: the shapes in search order and the initial budget *)
ConstructShapes(inp) ==
    LET mt == Lt(inp.grid) + 1
        m == Normalize(inp.grid, inp.goal)
        built == BuildShapes(SearchOrder(inp.shapes), 0, inp.width, inp.height, EmptyVec)
    IN  IF built.panic THEN [kind |-> "Panic"]
        ELSE [kind |-> "Ok", max_token |-> mt, mat |-> m,
              shapes |-> [built.shapes EXCEPT ![0].incs =
                             InitialBudget(Togs(inp), GridSum(m), mt)]]

(* Solver::new without the check of line 64: line 115 indexes an empty Vec *)
ConstructNoShapeCheck(inp) ==
    IF VLen(inp.shapes) = 0 THEN [kind |-> "Panic"] ELSE ConstructShapes(inp)

(* Solver::new as a whole: Err, a panic, or the Solver *)
Construct(inp) ==
    IF VLen(inp.shapes) = 0 THEN [kind |-> "Err", error |-> "No shapes"]
    ELSE ConstructShapes(inp)

-----------------------------------------------------------------------------
(* Solver::solve: the acceptance test, commit and undo                     *)

(* lines 153-162: walk the covered cells of the placement starting at      *)
(* cache[start], charging the budget for every cell at token 0             *)
RECURSIVE BudgetWalk(_, _, _, _, _, _)
BudgetWalk(m, cache, start, npts, j, ti) ==
    IF j >= npts THEN [can_place |-> TRUE, ti |-> ti]
    ELSE IF m[cache[start + j]] = 0
         THEN IF ti - 1 < 0 THEN [can_place |-> FALSE, ti |-> ti - 1]
              ELSE BudgetWalk(m, cache, start, npts, j + 1, ti - 1)
         ELSE BudgetWalk(m, cache, start, npts, j + 1, ti)

(* lines 146-181: the first acceptable placement s in seq..tot-1, if any *)
RECURSIVE FirstPlacement(_, _, _, _)
FirstPlacement(m, shape, s, i_budget) ==
    IF s >= shape.tot THEN [ok |-> FALSE, s |-> s, ti |-> i_budget]
    ELSE LET w == BudgetWalk(m, shape.cache, s * shape.npts, shape.npts, 0, i_budget)
         IN  IF w.can_place THEN [ok |-> TRUE, s |-> s, ti |-> w.ti]
             ELSE FirstPlacement(m, shape, s + 1, i_budget)

(* lines 173-175 *)
Decrement(v, mt8) ==
    LET d == ToI8(v - 1) IN IF d < 0 THEN ToI8(mt8 - 1) ELSE d

(* lines 204-206 *)
Increment(v, mt8) ==
    LET u == ToI8(v + 1) IN IF u = mt8 THEN 0 ELSE u

(* `*val_ptr - 1` or `mt - 1` leaves the range of i8 *)
DecOverflows(v, mt8) == v - 1 < -128 \/ (v - 1 < 0 /\ mt8 - 1 < -128)

(* `*val_ptr + 1` leaves the range of i8 *)
IncOverflows(v) == v + 1 > 127

(* lines 169-176 *)
RECURSIVE ApplyPlacement(_, _, _, _, _, _)
ApplyPlacement(m, cache, start, npts, j, mt8) ==
    IF j >= npts THEN m
    ELSE LET mi == cache[start + j]
         IN  ApplyPlacement([m EXCEPT ![mi] = Decrement(m[mi], mt8)],
                            cache, start, npts, j + 1, mt8)

(* lines 201-207 *)
RECURSIVE UndoPlacement(_, _, _, _, _, _)
UndoPlacement(m, cache, start, npts, j, mt8) ==
    IF j >= npts THEN m
    ELSE LET mi == cache[start + j]
         IN  UndoPlacement([m EXCEPT ![mi] = Increment(m[mi], mt8)],
                           cache, start, npts, j + 1, mt8)

(* lines 169-176 in a build with overflow checks: the loop panics at the   *)
(* first subtraction that overflows, the cells before it already written   *)
RECURSIVE ApplyChecked(_, _, _, _, _, _)
ApplyChecked(m, cache, start, npts, j, mt8) ==
    IF j >= npts THEN [panic |-> FALSE, mat |-> m]
    ELSE LET mi == cache[start + j]
         IN  IF DecOverflows(m[mi], mt8) THEN [panic |-> TRUE, mat |-> m]
             ELSE ApplyChecked([m EXCEPT ![mi] = Decrement(m[mi], mt8)],
                               cache, start, npts, j + 1, mt8)

(* lines 201-207 in a build with overflow checks *)
RECURSIVE UndoChecked(_, _, _, _, _, _)
UndoChecked(m, cache, start, npts, j, mt8) ==
    IF j >= npts THEN [panic |-> FALSE, mat |-> m]
    ELSE LET mi == cache[start + j]
         IN  IF IncOverflows(m[mi]) THEN [panic |-> TRUE, mat |-> m]
             ELSE UndoChecked([m EXCEPT ![mi] = Increment(m[mi], mt8)],
                              cache, start, npts, j + 1, mt8)

(* the next shape always started from its first placement *)
SeedSeqFromZero(sh, k) == 0

(* line 188 *)
SeedSeq(sh, k) ==
    IF sh[k].equivalent_to = {} THEN 0
    ELSE sh[CHOOSE e \in sh[k].equivalent_to : TRUE].seq

-----------------------------------------------------------------------------
(* Solver::build_solution                                                  *)

(* line 217: the first shape record, in search order, with this id *)
RECURSIVE FindById(_, _, _)
FindById(sh, idx, m) ==
    IF idx >= VLen(sh) THEN {}
    ELSE IF sh[idx].original_id = m THEN {idx}
    ELSE FindById(sh, idx + 1, m)

StepOf(s) ==
    [original_shape_id |-> s.original_id,
     placement_x |-> s.seq % s.ax,
     placement_y |-> s.seq \div s.ax,
     placement_seq |-> s.seq]

RECURSIVE BuildSteps(_, _, _)
BuildSteps(sh, m, steps) ==
    IF m >= VLen(sh) THEN steps
    ELSE LET found == FindById(sh, 0, m)
         IN  IF found = {} THEN BuildSteps(sh, m + 1, steps)
             ELSE BuildSteps(sh, m + 1,
                             Push(steps, StepOf(sh[CHOOSE f \in found : TRUE])))

build_solution(sh) == BuildSteps(sh, 0, EmptyVec)

-----------------------------------------------------------------------------
(* The commands of lib.rs and the steps of a solve request                 *)

InFlight(p) == pc[p] \in {"called", "constructed", "loop"}

Return(p, how, resp) ==
    /\ pc' = [pc EXCEPT ![p] = "done"]
    /\ exitAt' = [exitAt EXCEPT ![p] = how]
    /\ response' = [response EXCEPT ![p] = resp]

(* solve_puzzle up to the end of Solver::new *)
New(p) ==
    /\ pc[p] = "called"
    /\ LET r == Construct(input[p])
       IN  IF r.kind = "Ok"
           THEN /\ pc' = [pc EXCEPT ![p] = "constructed"]
                /\ max_token' = [max_token EXCEPT ![p] = r.max_token]
                /\ mat' = [mat EXCEPT ![p] = r.mat]
                /\ shapes' = [shapes EXCEPT ![p] = r.shapes]
                /\ UNCHANGED <<exitAt, response>>
           ELSE /\ Return(p, IF r.kind = "Err" THEN "NoShapes" ELSE "Panic", {})
                /\ UNCHANGED <<max_token, mat, shapes>>
    /\ UNCHANGED <<input, i, budget_stack, iter_count, backtracks, CANCEL_FLAG,
                   overflow_checks>>

(* Solver::solve, lines 121-132 *)
SolveEntry(p) ==
    /\ pc[p] = "constructed"
    /\ CANCEL_FLAG' = FALSE
    /\ i' = [i EXCEPT ![p] = 0]
    /\ budget_stack' = [budget_stack EXCEPT ![p] =
          [f \in 0..(IF VLen(shapes[p]) < StackCap THEN VLen(shapes[p]) ELSE StackCap - 1)
              |-> IF f = 0 THEN shapes[p][0].incs ELSE 0]]
    /\ iter_count' = [iter_count EXCEPT ![p] = 0]
    /\ pc' = [pc EXCEPT ![p] = "loop"]
    /\ UNCHANGED <<input, exitAt, response, max_token, mat, shapes, backtracks,
                   overflow_checks>>

(* the value of `return None` at line 137 and at line 192 *)
CancelledValue == {}
ExhaustedValue == {}

(* a poll that does not fall on the interval: one iteration late *)
PollHitLate(n, flag) == n % (PollInterval + 1) = 0 /\ flag

(* lines 136-137 *)
PollHit(n, flag) == n % PollInterval = 0 /\ flag

(* one pass of the loop of lines 134-211 *)
LoopIter(p) ==
    /\ pc[p] = "loop"
    /\ iter_count' = [iter_count EXCEPT ![p] = @ + 1]
    /\ UNCHANGED <<input, max_token, CANCEL_FLAG, overflow_checks>>
    /\ LET cur == i[p]
           ns == VLen(shapes[p])
           mt8 == ToI8(max_token[p])
           shape == shapes[p][cur]
           t == FirstPlacement(mat[p], shape, shape.seq, budget_stack[p][cur])
       IN  IF PollHit(iter_count[p] + 1, CANCEL_FLAG)
           THEN /\ Return(p, "Cancelled", CancelledValue)
                /\ UNCHANGED <<mat, shapes, i, budget_stack, backtracks>>
           ELSE IF t.ok
           THEN IF cur + 1 >= StackCap
                THEN /\ Return(p, "Panic", {})
                     /\ shapes' = [shapes EXCEPT ![p][cur].seq = t.s]
                     /\ UNCHANGED <<mat, i, budget_stack, backtracks>>
                ELSE LET committed == [shapes[p] EXCEPT ![cur].seq = t.s]
                         applied ==
                             IF overflow_checks
                             THEN ApplyChecked(mat[p], shape.cache, t.s * shape.npts,
                                               shape.npts, 0, mt8)
                             ELSE [panic |-> FALSE,
                                   mat |-> ApplyPlacement(mat[p], shape.cache,
                                                          t.s * shape.npts,
                                                          shape.npts, 0, mt8)]
                     IN  /\ budget_stack' = [budget_stack EXCEPT ![p][cur + 1] = t.ti]
                         /\ mat' = [mat EXCEPT ![p] = applied.mat]
                         /\ UNCHANGED backtracks
                         /\ IF applied.panic
                            THEN /\ shapes' = [shapes EXCEPT ![p] = committed]
                                 /\ Return(p, "Panic", {})
                                 /\ UNCHANGED i
                            ELSE IF cur = ns - 1
                            THEN /\ shapes' = [shapes EXCEPT ![p] = committed]
                                 /\ Return(p, "Solved", {build_solution(committed)})
                                 /\ UNCHANGED i
                            ELSE /\ i' = [i EXCEPT ![p] = cur + 1]
                                 /\ shapes' = [shapes EXCEPT ![p] =
                                       [committed EXCEPT ![cur + 1].seq =
                                           SeedSeq(committed, cur + 1)]]
                                 /\ UNCHANGED <<pc, exitAt, response>>
           ELSE IF cur = 0
                THEN /\ Return(p, "Exhausted", ExhaustedValue)
                     /\ UNCHANGED <<mat, shapes, i, budget_stack, backtracks>>
                ELSE LET prev == shapes[p][cur - 1]
                         undone ==
                             IF overflow_checks
                             THEN UndoChecked(mat[p], prev.cache, prev.seq * prev.npts,
                                              prev.npts, 0, mt8)
                             ELSE [panic |-> FALSE,
                                   mat |-> UndoPlacement(mat[p], prev.cache,
                                                         prev.seq * prev.npts,
                                                         prev.npts, 0, mt8)]
                     IN  /\ i' = [i EXCEPT ![p] = cur - 1]
                         /\ mat' = [mat EXCEPT ![p] = undone.mat]
                         /\ UNCHANGED budget_stack
                         /\ IF undone.panic
                            THEN /\ Return(p, "Panic", {})
                                 /\ UNCHANGED <<shapes, backtracks>>
                            ELSE /\ shapes' = [shapes EXCEPT ![p][cur - 1].seq =
                                                  prev.seq + 1]
                                 /\ backtracks' = [backtracks EXCEPT ![p] = @ + 1]
                                 /\ UNCHANGED <<pc, exitAt, response>>

(* cancel_solve, lib.rs lines 25-28 *)
cancel_solve == CANCEL_FLAG' = TRUE

-----------------------------------------------------------------------------
(* Inputs                                                                  *)

MkInput(w, h, g, gl, sh) ==
    [width |-> w, height |-> h, grid |-> g, goal |-> gl, shapes |-> sh]

(* the lists of point lists that hold, shapes and points together, at    *)
(* most b entries, the points drawn from S                                 *)
RECURSIVE PointLists(_, _)
PointLists(b, S) ==
    {EmptyVec} \cup
    UNION {{Push(rest, pts) : pts \in [0..(l - 1) -> S],
                              rest \in PointLists(b - 1 - l, S)} : l \in 0..(b - 1)}

(* shapes as the front end numbers them: in range, id = position *)
NumberedShapes(b, cells) == PointLists(b, 0..(cells - 1))

WithIds(pointLists) ==
    [k \in DOMAIN pointLists |-> [id |-> k, points |-> pointLists[k]]]

(* shapes as the deserialiser accepts them: any id, any index *)
AnyShapes(b, cells) ==
    UNION {{[k \in DOMAIN pl |-> [id |-> ids[k], points |-> pl[k]]] :
                ids \in [DOMAIN pl -> 0..VLen(pl)]} :
           pl \in PointLists(b, 0..(cells - 1 + OutOfRange))}

FullCoverShapes == [k \in 0..0 |-> [id |-> 0, points |-> [c \in 0..3 |-> c]]]

(* seven interchangeable one-cell shapes on a 2x2 grid that is already at  *)
(* goal: no solution, and the search backtracks for 1133 iterations        *)
HeavyInput ==
    MkInput(2, 2, [c \in 0..3 |-> 1], 1,
            [k \in 0..6 |-> [id |-> k, points |-> [c \in 0..0 |-> 0]]])

IdleInput == MkInput(1, 1, EmptyVec, 0, EmptyVec)

(* a solvable request that takes one search step *)
TinyInput == MkInput(2, 2, [c \in 0..3 |-> 1], 0, FullCoverShapes)

(* request 1 received, request 2 idle or received, in the given build *)
InitBuild(inp1, pc2, inp2, checks) ==
    /\ overflow_checks = checks
    /\ input = [p \in Solves |-> IF p = 1 THEN inp1 ELSE inp2]
    /\ pc = [p \in Solves |-> IF p = 1 THEN "called" ELSE pc2]
    /\ exitAt = [p \in Solves |-> "-"]
    /\ response = [p \in Solves |-> {}]
    /\ max_token = [p \in Solves |-> 0]
    /\ mat = [p \in Solves |-> EmptyVec]
    /\ shapes = [p \in Solves |-> EmptyVec]
    /\ i = [p \in Solves |-> 0]
    /\ budget_stack = [p \in Solves |-> EmptyVec]
    /\ iter_count = [p \in Solves |-> 0]
    /\ backtracks = [p \in Solves |-> 0]
    /\ CANCEL_FLAG = FALSE
    /\ aimed = [p \in Solves |-> "-"]
    /\ extra = [p \in Solves |-> 0]

(* the release build; none of the requests drawn with it takes a cell or   *)
(* mt to the ends of i8, where the two builds part                         *)
InitWith(inp1, pc2, inp2) == InitBuild(inp1, pc2, inp2, FALSE)

-----------------------------------------------------------------------------
(* Spec: one solve request, never cancelled                                *)

(* the requests of the interface: any grid, a goal of the grid's range,   *)
(* shapes numbered by position with points on the grid                     *)
InitGeneral ==
    \E w \in 1..MaxSize, h \in 1..MaxSize :
      /\ w * h <= MaxSize
      /\ \E pl \in NumberedShapes(MaxSize - w * h, w * h) :
           \E g \in [0..(w * h - 1) -> 0..MaxRaw] :
             \E gl \in 0..Lt(g) :
               InitWith(MkInput(w, h, g, gl, WithIds(pl)), "idle", IdleInput)

(* requests nothing validates, of at most SmallSize cells, shapes and      *)
(* points: any goal, any shape id, point indices past the grid             *)
InitUnchecked ==
    \E w \in 1..SmallSize, h \in 1..SmallSize :
      /\ w * h <= SmallSize
      /\ \E sh \in AnyShapes(SmallSize - w * h, w * h) :
           \E g \in [0..(w * h - 1) -> 0..MaxRaw] :
             \E gl \in 0..MaxRaw :
               InitWith(MkInput(w, h, g, gl, sh), "idle", IdleInput)

(* the 2x2 requests with one shape that covers the whole grid *)
InitFullCover ==
    \E g \in [0..3 -> 0..MaxRaw] :
      \E gl \in 0..Lt(g) :
        InitWith(MkInput(2, 2, g, gl, FullCoverShapes), "idle", IdleInput)

(* the request whose search backtracks longest *)
InitHeavy == InitWith(HeavyInput, "idle", IdleInput)

Init == InitGeneral \/ InitUnchecked \/ InitFullCover \/ InitHeavy

StepNew == \E p \in Solves : New(p) /\ UNCHANGED <<aimed, extra>>
StepEntry == \E p \in Solves : SolveEntry(p) /\ UNCHANGED <<aimed, extra>>
StepLoop == \E p \in Solves : LoopIter(p) /\ UNCHANGED <<aimed, extra>>

Next == StepNew \/ StepEntry \/ StepLoop

Spec == Init /\ [][Next]_vars

-----------------------------------------------------------------------------
(* SpecCancel: one solve request and a caller that may cancel it           *)

(* a cancel_solve call meant for the in-flight request p *)
StepCancel ==
    \E p \in Solves :
        /\ InFlight(p)
        /\ cancel_solve
        /\ aimed' = [aimed EXCEPT ![p] = pc[p]]
        /\ UNCHANGED <<progVars, extra>>

(* a loop iteration, counted when it starts with the flag set *)
StepLoopCounted ==
    \E p \in Solves :
        /\ LoopIter(p)
        /\ extra' = [extra EXCEPT ![p] = IF CANCEL_FLAG THEN @ + 1 ELSE @]
        /\ UNCHANGED aimed

InitCancel ==
    \/ InitHeavy
    \/ InitFullCover

NextCancel == StepNew \/ StepEntry \/ StepLoopCounted \/ StepCancel

SpecCancel == InitCancel /\ [][NextCancel]_vars

-----------------------------------------------------------------------------
(* SpecConc: two solve requests on two worker threads and a caller that    *)
(* may cancel either                                                       *)

InitConc == InitWith(TinyInput, "called", HeavyInput)

NextConc == StepNew \/ StepEntry \/ StepLoop \/ StepCancel

SpecConc == InitConc /\ [][NextConc]_vars

-----------------------------------------------------------------------------
(* SpecDeep: one solve request with as many shapes as the stack has frames *)

(* StackCap one-cell shapes on the 1x1 grid [0] with goal 0: mt = 1, every *)
(* token stays 0, the budget is StackCap and every placement is a solution *)
DeepInput ==
    MkInput(1, 1, [c \in 0..0 |-> 0], 0,
            [k \in 0..(StackCap - 1) |-> [id |-> k, points |-> [c \in 0..0 |-> 0]]])

InitDeep == InitWith(DeepInput, "idle", IdleInput)

SpecDeep == InitDeep /\ [][Next]_vars

-----------------------------------------------------------------------------
(* SpecWide: one solve request over the whole range of the u8 grid values, *)
(* in either build                                                         *)

WideLoad == 4       \* largest number of shapes and points drawn together

(* raw values at the ends of the ranges of u8 and i8 *)
WideRaw == {0, 1, 127, 128, 255}

InitWide ==
    \E w \in 1..2, checks \in BOOLEAN :
      \E pl \in NumberedShapes(WideLoad, w) :
        \E g \in [0..(w - 1) -> WideRaw] :
          \E gl \in {v \in WideRaw : v <= Lt(g)} :
            InitBuild(MkInput(w, 1, g, gl, WithIds(pl)), "idle", IdleInput, checks)

SpecWide == InitWide /\ [][Next]_vars

-----------------------------------------------------------------------------
(* What the claims speak of, stated from the request alone                 *)

(* one decrement modulo mt: 0 wraps to mt - 1 *)
ModDec(v, mt) == IF v = 0 THEN mt - 1 ELSE v - 1

RECURSIVE DecTimes(_, _, _)
DecTimes(v, mt, n) == IF n = 0 THEN v ELSE DecTimes(ModDec(v, mt), mt, n - 1)

(* the cell a point lands on when its shape is translated by <<dx, dy>> *)
Moved(pt, w, d) == ((pt \div w) + d[2]) * w + ((pt % w) + d[1])

(* the translations that keep every point of a shape on the grid *)
Translations(pts, w, h) ==
    {d \in (0..(w - 1)) \X (0..(h - 1)) :
        \A k \in DOMAIN pts :
            /\ pts[k] < w * h
            /\ (pts[k] % w) + d[1] < w
            /\ (pts[k] \div w) + d[2] < h}

(* how often cell c is covered when shape k is translated by a[k] *)
Covered(inp, a, c) ==
    Cardinality({kj \in UNION {{<<k, j>> : j \in DOMAIN inp.shapes[k].points} :
                                   k \in DOMAIN inp.shapes} :
                     Moved(inp.shapes[kj[1]].points[kj[2]], inp.width, a[kj[1]]) = c})

ReachesGoal(inp, a) ==
    LET m == Normalize(inp.grid, inp.goal)
        mt == Lt(inp.grid) + 1
    IN  \A c \in DOMAIN m : DecTimes(m[c], mt, Covered(inp, a, c)) = 0

(* some choice of one translation per shape drives every cell to token 0 *)
SolutionExists(inp) ==
    \E a \in [DOMAIN inp.shapes -> (0..(inp.width - 1)) \X (0..(inp.height - 1))] :
        /\ \A k \in DOMAIN inp.shapes :
               a[k] \in Translations(inp.shapes[k].points, inp.width, inp.height)
        /\ ReachesGoal(inp, a)

(* the request's shape a step names *)
ShapeOfStep(inp, st) ==
    inp.shapes[CHOOSE k \in DOMAIN inp.shapes : inp.shapes[k].id = st.original_shape_id]

RECURSIVE ReplayPoints(_, _, _, _, _, _)
ReplayPoints(m, pts, j, w, d, mt) ==
    IF j >= VLen(pts) THEN m
    ELSE LET c == Moved(pts[j], w, d)
         IN  ReplayPoints([m EXCEPT ![c] = ModDec(m[c], mt)], pts, j + 1, w, d, mt)

RECURSIVE ReplaySteps(_, _, _, _)
ReplaySteps(m, inp, steps, j) ==
    IF j >= VLen(steps) THEN m
    ELSE ReplaySteps(ReplayPoints(m, ShapeOfStep(inp, steps[j]).points, 0, inp.width,
                                  <<steps[j].placement_x, steps[j].placement_y>>,
                                  Lt(inp.grid) + 1),
                     inp, steps, j + 1)

(* the emitted placements applied to a freshly normalized grid *)
Replayed(inp, steps) == ReplaySteps(Normalize(inp.grid, inp.goal), inp, steps, 0)

TheSteps(p) == CHOOSE st \in response[p] : TRUE

Ran(p) == pc[p] = "done" /\ exitAt[p] \in {"Solved", "Exhausted", "Cancelled"}

-----------------------------------------------------------------------------
(* C1: whenever solve returns a solution, the emitted placements, applied  *)
(* to a freshly normalized grid, leave every cell at token 0.              *)
C1_SolvedReplaysToGoal ==
    \A p \in Solves :
        exitAt[p] = "Solved" =>
            LET m == Replayed(input[p], TheSteps(p))
            IN  \A c \in DOMAIN m : m[c] = 0

(* C2: if some assignment of one translation per shape drives every cell   *)
(* to token 0, a finished solve has returned a solution.                   *)
C2_ExistingSolutionFound ==
    \A p \in Solves :
        (Ran(p) /\ SolutionExists(input[p])) => exitAt[p] = "Solved"

(* C3: on success the response holds exactly one step for each supplied   *)
(* shape, in ascending order of shape id, each with x = seq mod ax,        *)
(* y = seq div ax and placementSeq = seq of that shape's placement.        *)
C3_OneStepPerShape ==
    \A p \in Solves :
        exitAt[p] = "Solved" =>
            LET st == TheSteps(p)
                sh == shapes[p]
            IN  /\ VLen(st) = VLen(input[p].shapes)
                /\ \A j, k \in DOMAIN st :
                       j < k => st[j].original_shape_id <= st[k].original_shape_id
                /\ \E f \in [DOMAIN st -> DOMAIN sh] :
                       /\ \A j, k \in DOMAIN st : j # k => f[j] # f[k]
                       /\ \A j \in DOMAIN st :
                              /\ st[j].original_shape_id = sh[f[j]].original_id
                              /\ st[j].placement_seq = sh[f[j]].seq
                              /\ st[j].placement_x = sh[f[j]].seq % sh[f[j]].ax
                              /\ st[j].placement_y = sh[f[j]].seq \div sh[f[j]].ax

(* the exits of a request that are an Err of Solver::new *)
ConfigErrors == {"NoShapes"}

(* C4: a request with zero shapes ends in the configuration error of       *)
(* Solver::new before any search step: it is never constructed, never      *)
(* searched, never solved, never exhausted and never panics.               *)
C4_ZeroShapesConfigError ==
    \A p \in Solves :
        (VLen(input[p].shapes) = 0 /\ pc[p] \notin {"idle", "called"}) =>
            /\ pc[p] = "done"
            /\ exitAt[p] \in ConfigErrors
            /\ response[p] = {}
            /\ iter_count[p] = 0
            /\ VLen(budget_stack[p]) = 0

C4_Witness ==
    \E p \in Solves :
        VLen(input[p].shapes) = 0 /\ pc[p] = "done" /\ exitAt[p] = "NoShapes"

HasDuplicate(pts) ==
    \E a, b \in DOMAIN pts : a # b /\ pts[a] = pts[b]

BadShape(pts, w, h) ==
    \/ Translations(pts, w, h) = {}
    \/ \E k \in DOMAIN pts : pts[k] \notin 0..(w * h - 1)
    \/ HasDuplicate(pts)

(* C5: a request with a shape that has no valid translation, a point      *)
(* index outside the grid or a duplicate point fails in Solver::new with a *)
(* configuration error, before any search step.                            *)
C5_BadShapesRejected ==
    \A p \in Solves :
        ( /\ pc[p] \notin {"idle", "called"}
          /\ \E k \in DOMAIN input[p].shapes :
                 BadShape(input[p].shapes[k].points, input[p].width, input[p].height) )
        => (pc[p] = "done" /\ exitAt[p] \in ConfigErrors)

(* C6: a request whose togs - grid_sum is no exact multiple of mt never    *)
(* gets past Solver::new, and the budget of the first shape is the exact   *)
(* quotient.                                                               *)
C6_InexactBudgetRejected ==
    \A p \in Solves :
        (pc[p] \in {"constructed", "loop"} \/ Ran(p)) =>
            LET d == Togs(input[p]) - GridSum(Normalize(input[p].grid, input[p].goal))
            IN  /\ d % max_token[p] = 0
                /\ shapes[p][0].incs * max_token[p] = d

(* the scenario of C10 *)
FullGridAtGoal == MkInput(2, 2, [c \in 0..3 |-> 1], 1, FullCoverShapes)

(* C10 as stated: the scenario ends solved with the step                   *)
(* {originalShapeId 0, x 0, y 0, placementSeq 0} and without a backtrack.  *)
C10_ScenarioSolved ==
    \A p \in Solves :
        (input[p] = FullGridAtGoal /\ pc[p] = "done") =>
            /\ exitAt[p] = "Solved"
            /\ response[p] = {[k \in 0..0 |-> [original_shape_id |-> 0, placement_x |-> 0,
                                               placement_y |-> 0, placement_seq |-> 0]]}
            /\ backtracks[p] = 0

(* C10 as amended: the scenario has mt = 2, the normalized grid            *)
(* [0,0,0,0] and the budget (4 - 0) / 2 = 2; the one placement would wrap  *)
(* four cells, so the search returns no solution after one loop iteration, *)
(* without a backtrack.                                                    *)
C10_ScenarioExhausted ==
    \A p \in Solves :
        (input[p] = FullGridAtGoal /\ pc[p] # "called") =>
            /\ max_token[p] = 2
            /\ shapes[p][0].incs = 2
            /\ mat[p] = [c \in 0..3 |-> 0]
            /\ pc[p] = "done" =>
                  /\ exitAt[p] = "Exhausted"
                  /\ response[p] = ExhaustedValue
                  /\ iter_count[p] = 1
                  /\ backtracks[p] = 0

C10_Witness ==
    \E p \in Solves : input[p] = FullGridAtGoal /\ pc[p] = "done" /\ iter_count[p] = 1

-----------------------------------------------------------------------------
(* Cancellation: checked under SpecCancel and SpecConc                     *)

(* C7: a cancelled search returns something else than a search that has    *)
(* exhausted all placements.                                               *)
C7_CancelledDistinct ==
    \A p \in Solves : exitAt[p] = "Cancelled" => response[p] # ExhaustedValue

(* C8 as stated: once the flag is set while the search runs, the search    *)
(* returns the cancelled outcome, after at most PollInterval further loop  *)
(* iterations.                                                             *)
C8_CancelledAfterSignal ==
    \A p \in Solves :
        /\ extra[p] <= PollInterval
        /\ (pc[p] = "done" /\ extra[p] > 0) =>
               (exitAt[p] = "Cancelled" /\ response[p] = CancelledValue)

(* C8 as amended: once the flag is set while the one search in flight      *)
(* runs, that search starts at most PollInterval further loop iterations;  *)
(* it returns the cancelled outcome at its next poll unless it reaches     *)
(* Solved or Exhausted on its own before that poll.                        *)
C8_CancelledWithinInterval ==
    \A p \in Solves :
        /\ extra[p] <= PollInterval
        /\ extra[p] = PollInterval => (pc[p] = "done" /\ exitAt[p] = "Cancelled")
        /\ (pc[p] = "loop" /\ CANCEL_FLAG) =>
               extra[p] <= iter_count[p] % PollInterval
        /\ exitAt[p] = "Cancelled" =>
               (extra[p] >= 1 /\ iter_count[p] % PollInterval = 0 /\ response[p] = {})

C8_Witness ==
    \E p \in Solves : exitAt[p] = "Cancelled" /\ extra[p] = PollInterval

(* C9: a cancel_solve call aimed at one in-flight solve aborts no other    *)
(* solve, and stays set while the solve it was aimed at still runs.        *)
C9_CancelScopedToItsSolve ==
    \A p \in Solves :
        /\ exitAt[p] = "Cancelled" => aimed[p] # "-"
        /\ (aimed[p] = "loop" /\ pc[p] = "loop") => CANCEL_FLAG

-----------------------------------------------------------------------------
(* The search stack: checked under SpecDeep                                *)

(* C11: a request whose shape count needs a budget frame outside the       *)
(* StackCap frames of the stack is rejected by Solver::new before the      *)
(* search, and the frame written on commit, i + 1, lies inside the stack   *)
(* in every search state.                                                  *)
C11_StackLimitEnforced ==
    \A p \in Solves :
        /\ (VLen(input[p].shapes) >= StackCap /\ pc[p] \notin {"idle", "called"}) =>
               (pc[p] = "done" /\ exitAt[p] \in ConfigErrors /\ iter_count[p] = 0)
        /\ pc[p] = "loop" => i[p] + 1 < StackCap
        /\ exitAt[p] # "Panic"

-----------------------------------------------------------------------------
(* The search order: checked under Spec                                    *)

(* the request numbers its shapes by their position in the list *)
IdsArePositions(inp) == \A k \in DOMAIN inp.shapes : inp.shapes[k].id = k

Built(p) == pc[p] \in {"constructed", "loop"} \/ Ran(p)

(* C12: the search order lists the shapes by non-increasing point count,   *)
(* and of two shapes with the same point count the one that stands earlier *)
(* in the request comes first.                                             *)
C12_OrderByCountThenIndex ==
    \A p \in Solves :
        (Built(p) /\ IdsArePositions(input[p])) =>
            \A j, k \in DOMAIN shapes[p] :
                j < k =>
                    /\ shapes[p][j].npts >= shapes[p][k].npts
                    /\ shapes[p][j].npts = shapes[p][k].npts =>
                           shapes[p][j].original_id < shapes[p][k].original_id

-----------------------------------------------------------------------------
(* The returned solution: checked under Spec                               *)

(* one placement index per shape of the search order *)
PlacementTuples(sh) == {s \in [DOMAIN sh -> 0..SetMax({0} \cup {sh[k].tot : k \in DOMAIN sh})] :
                           \A k \in DOMAIN sh : s[k] < sh[k].tot}

(* how often the placements of s cover cell c *)
TupleCovers(sh, s, c) ==
    Cardinality({kj \in UNION {{<<k, j>> : j \in 0..(sh[k].npts - 1)} : k \in DOMAIN sh} :
                     sh[kj[1]].cache[s[kj[1]] * sh[kj[1]].npts + kj[2]] = c})

(* s drives every cell of the normalized grid to token 0 *)
TupleSolves(inp, sh, s) ==
    LET m == Normalize(inp.grid, inp.goal)
        mt == Lt(inp.grid) + 1
    IN  \A c \in DOMAIN m : DecTimes(m[c], mt, TupleCovers(sh, s, c)) = 0

(* no shape is placed before its equivalence partner *)
PartnersOrdered(sh, s) ==
    \A k \in DOMAIN sh : \A e \in sh[k].equivalent_to : s[k] >= s[e]

LexLess(a, b) ==
    \E k \in DOMAIN a : a[k] < b[k] /\ \A j \in DOMAIN a : j < k => a[j] = b[j]

SeqTuple(sh) == [k \in DOMAIN sh |-> sh[k].seq]

(* C13: whenever some placement tuple drives every cell to token 0, the    *)
(* search returns a solution, and the placement indices it returns are the *)
(* lexicographically smallest tuple, in search order, that drives every    *)
(* cell to token 0 and places no shape before its equivalence partner.     *)
C13_FirstSolutionInOrder ==
    \A p \in Solves :
        Ran(p) =>
            LET sh == shapes[p]
                sols == {s \in PlacementTuples(sh) : TupleSolves(input[p], sh, s)}
            IN  sols # {} =>
                    /\ exitAt[p] = "Solved"
                    /\ SeqTuple(sh) \in sols
                    /\ PartnersOrdered(sh, SeqTuple(sh))
                    /\ \A s \in sols : PartnersOrdered(sh, s) => ~LexLess(s, SeqTuple(sh))

-----------------------------------------------------------------------------
(* Tokens: checked under SpecWide                                          *)

(* C14: for a request whose goal lies in [0, lt], every cell of the grid   *)
(* holds a token in [0, mt) once the Solver is built and after every       *)
(* commit and every backtrack undo of its search.                          *)
C14_TokensWithinCycle ==
    \A p \in Solves :
        (Built(p) /\ input[p].goal <= Lt(input[p].grid)) =>
            \A c \in DOMAIN mat[p] : mat[p][c] \in 0..(max_token[p] - 1)


(* the cells start..start+npts-1 of a cache decremented once each, mod mt *)
RECURSIVE DecCells(_, _, _, _, _, _)
DecCells(m, cache, start, npts, j, mt) ==
    IF j >= npts THEN m
    ELSE DecCells([m EXCEPT ![cache[start + j]] = ModDec(m[cache[start + j]], mt)],
                  cache, start, npts, j + 1, mt)

(* the grid m with the recorded placements of the shapes k..n-1 applied *)
RECURSIVE PlacedGrid(_, _, _, _, _)
PlacedGrid(m, sh, k, n, mt) ==
    IF k >= n THEN m
    ELSE PlacedGrid(DecCells(m, sh[k].cache, sh[k].seq * sh[k].npts, sh[k].npts, 0, mt),
                    sh, k + 1, n, mt)

(* C15: in every search state with cursor i the grid is the freshly        *)
(* normalized grid with the recorded placements of the shapes 0..i-1       *)
(* applied once each, and an Exhausted return leaves the normalized grid.  *)
C15_GridIsPlacementsApplied ==
    \A p \in Solves :
        /\ pc[p] = "loop" =>
               mat[p] = PlacedGrid(Normalize(input[p].grid, input[p].goal), shapes[p],
                                   0, i[p], max_token[p])
        /\ exitAt[p] = "Exhausted" => mat[p] = Normalize(input[p].grid, input[p].goal)

-----------------------------------------------------------------------------
(* Equivalent shapes: checked under Spec                                   *)

(* C16: a shape at or below the cursor that has an equivalence partner has *)
(* a trial index not smaller than its partner's, in every search state and *)
(* in every returned solution.                                             *)
C16_NotBeforePartner ==
    \A p \in Solves :
        (pc[p] = "loop" \/ exitAt[p] = "Solved") =>
            \A k \in 0..i[p] : \A e \in shapes[p][k].equivalent_to :
                e < k /\ shapes[p][k].seq >= shapes[p][e].seq

(* a shape that was moved past its partner's placement after a backtrack *)
C16_Witness ==
    \E p \in Solves :
        /\ pc[p] = "loop" /\ backtracks[p] > 0
        /\ \E k \in 0..i[p] : \E e \in shapes[p][k].equivalent_to :
               shapes[p][e].seq > 0 /\ shapes[p][k].seq > shapes[p][e].seq

-----------------------------------------------------------------------------
(* Termination: checked under SpecDeep                                     *)

(* the trial indices of the shapes up to the cursor; a shape above the     *)
(* cursor counts as not yet tried                                          *)
Rank(sh, cur) == [k \in DOMAIN sh |-> IF k <= cur THEN sh[k].seq ELSE -1]

(* C17: a search that is never cancelled terminates, through Solved or     *)
(* through Exhausted: every pass of the loop that does not return moves    *)
(* the trial indices up in lexicographic order, no trial index passes the  *)
(* number of placements of its shape, and a search that has left the loop  *)
(* has left it through Solved or Exhausted.                                *)
C17_SearchTerminates ==
    /\ [][\A p \in Solves :
             (pc[p] = "loop" /\ pc'[p] = "loop") =>
                 LexLess(Rank(shapes[p], i[p]), Rank(shapes'[p], i'[p]))]_vars
    /\ [](\A p \in Solves :
             /\ pc[p] = "loop" =>
                    \A k \in DOMAIN shapes[p] : shapes[p][k].seq <= shapes[p][k].tot
             /\ (pc[p] = "done" /\ iter_count[p] > 0) =>
                    exitAt[p] \in {"Solved", "Exhausted"})

-----------------------------------------------------------------------------
(* The slack budget: checked under Spec                                    *)

(* how many of the listed cells of a placement hold token 0 *)
ZeroCovered(m, cache, start, npts) ==
    Cardinality({j \in 0..(npts - 1) : m[cache[start + j]] = 0})

(* C18: the budget of the first shape and every budget forwarded on commit *)
(* are >= 0, and the budget forwarded by the shape k below the cursor is   *)
(* the budget it inherited minus the number of token-0 cells its recorded  *)
(* placement covered.                                                      *)
C18_BudgetNonNegative ==
    \A p \in Solves :
        /\ Built(p) => shapes[p][0].incs >= 0
        /\ pc[p] = "loop" =>
               /\ budget_stack[p][0] = shapes[p][0].incs
               /\ \A k \in 0..(i[p] - 1) :
                      LET sh == shapes[p][k]
                          before == PlacedGrid(Normalize(input[p].grid, input[p].goal),
                                               shapes[p], 0, k, max_token[p])
                      IN  /\ budget_stack[p][k + 1] >= 0
                          /\ budget_stack[p][k + 1] =
                                 budget_stack[p][k]
                                 - ZeroCovered(before, sh.cache, sh.seq * sh.npts, sh.npts)

-----------------------------------------------------------------------------
(* A cancellation during construction: checked under SpecCancel            *)

(* C19: with one solve in flight, a cancel_solve call made after the solve *)
(* request has started, its construction included, is not lost: the flag   *)
(* is set for as long as that solve is in its search loop, so its next     *)
(* poll reads it.                                                          *)
C19_CancelNotLost ==
    \A p \in Solves :
        (aimed[p] # "-" /\ pc[p] = "loop") => CANCEL_FLAG

-----------------------------------------------------------------------------
(* Eight-bit storage: checked under SpecWide                               *)

(* the tokens of the request: (g - v) mod mt, the non-negative remainder *)
ExactTokens(inp) ==
    [c \in DOMAIN inp.grid |-> (inp.goal - inp.grid[c]) % (Lt(inp.grid) + 1)]

(* C20: for every grid of u8 values and every goal in [0, lt], mt fits the *)
(* i8 it is cast to, the stored tokens are (g - v) mod mt, in every search *)
(* state the grid is those tokens with the recorded placements applied     *)
(* modulo mt, and no i8 operation of the search overflows.                 *)
C20_ExactInEightBits ==
    \A p \in Solves :
        input[p].goal <= Lt(input[p].grid) =>
            /\ Built(p) => ToI8(max_token[p]) = max_token[p]
            /\ pc[p] = "constructed" => mat[p] = ExactTokens(input[p])
            /\ pc[p] = "loop" =>
                   mat[p] = PlacedGrid(ExactTokens(input[p]), shapes[p], 0, i[p],
                                       max_token[p])
            /\ (pc[p] = "done" /\ iter_count[p] > 0 /\ VLen(shapes[p]) < StackCap) =>
                   exitAt[p] # "Panic"

=============================================================================
